---- MODULE Spec2Model ----
(***************************************************************************)
(* State-machine model of scrcpy.client.Client (src/scrcpy/client.py):     *)
(* the start()/stop() lifecycle, the two-socket handshake of               *)
(* __init_server_connection, the listener registry and the demux loop      *)
(* __stream_loop.  One caller thread issues start(); stop() and listener   *)
(* registration may run on another thread at any time; every successful    *)
(* start() runs one __stream_loop, inline or on its own worker thread.     *)
(* Nothing in the class is synchronised: every statement that other        *)
(* threads can observe is a step of its own.                               *)
(***************************************************************************)
EXTENDS Integers, Sequences, FiniteSets, TLC

\* ------------------------------------------------------------------ bounds
\* number of __stream_loop executions that can coexist
MaxLoops == 2
\* number of frames the device ever sends
MaxFrames == 2
\* reads in a row without bytes and without sleep that are counted
MaxSpin == 2
\* length of each listener list
MaxListeners == 2
\* control records each thread sends
MaxSends == 2

\* ------------------------------------------------------- program constants
\* for _ in range(30)
ConnectAttempts == 30
\* recv(1), recv(64), recv(4)
DummyLen == 1
NameLen == 64
ResLen == 4

\* the callbacks the caller registers, in the order it registers them
Funcs == <<"f", "g">>
NextFunc(registered) == Funcs[(Len(registered) % Len(Funcs)) + 1]
\* frame for "no frame" (Python None)
None == 0
Frames == 1..MaxFrames
\* frame.shape of decoded frame f: (height, width, channels)
Shape(f) == <<f, f + 1, 3>>
\* (frame.shape[1], frame.shape[0]): (width, height) of decoded frame f
Geometry(f) == <<Shape(f)[2], Shape(f)[1]>>
\* results of the handshake reads the device can produce: the decoded and
\* stripped name, or bytes that are not valid UTF-8
Undecodable == "\\xc3"
NameReads == {"", "dev", Undecodable}
ResReads == {<<>>, <<3, 2>>}

VARIABLES
  alive,           \* self.alive
  server_stream,   \* self.__server_stream : "none" | "open" | "closed"
  video_socket,    \* self.__video_socket  : "none" | "open" | "closed"
  video_blocking,  \* blocking mode of the video socket object
  control_socket,  \* self.control_socket  : "none" | "open" | "closed"
  control_blocking,\* blocking mode of the control socket object
  device_name,     \* self.device_name : "none" or the string
  resolution,      \* self.resolution  : <<>> (None) or <<w, h>>
  last_frame,      \* self.last_frame  : None or a frame
  listeners,       \* self.listeners : [frame |-> Seq(Funcs), init |-> Seq(Funcs)]
  block_frame,     \* self.block_frame
  pc,              \* position of the caller thread inside start()
  tries,           \* iterations the retry loop of start() has made
  initIdx,         \* position of the init-listener iteration
  startResult,     \* how the last start() call ended
  slot,            \* the loop thread of the last successful start()
  hs,              \* handshake steps executed by the current start(), in order
  initLog,         \* init listeners invoked by the current start(), in order
  stopped,         \* stop() has returned and start() has not acted since
  stop_pc,         \* position of the thread that is inside stop()
  loop,            \* per loop thread: the state of its __stream_loop
  sent,            \* frames the video socket has delivered so far
  calls,           \* frame-listener invocations with a real frame, in order
  control_socket_lock, \* self.control_socket_lock: the thread holding it
  sender,          \* per thread calling control.send: its position in send
  control_out,     \* bytes written to the control socket, in order
  wire             \* the handshake bytes of the server on the video channel

vars == <<alive, server_stream, video_socket, video_blocking, control_socket,
                 control_blocking, device_name, resolution, last_frame,
                 listeners, block_frame, pc, tries, initIdx, startResult,
                 slot, hs, initLog, stopped, stop_pc, loop,
                 sent, calls,
                 control_socket_lock, sender, control_out, wire>>

resVars == <<server_stream, video_socket, video_blocking, control_socket,
                 control_blocking>>
infoVars == <<device_name, resolution, last_frame>>
mainVars == <<pc, tries, initIdx, startResult, slot, hs, initLog>>
loopVars == <<loop, sent, calls>>
stopVars == <<stopped, stop_pc>>
ctlVars == <<control_socket_lock, sender, control_out>>
\* the state of the control sender and of the handshake byte stream
sideVars == <<ctlVars, wire>>

Resources == {"server", "control", "video"}
\* the state of resource r
StateOf(r) ==
  CASE r = "server" -> server_stream
    [] r = "control" -> control_socket
    [] OTHER -> video_socket

\* a thread that runs no __stream_loop; a running loop has its position, the
\* frames of its read not yet decoded, its local variable `frame`, the
\* position of the listener iteration, the invocations of the iteration and
\* the number of reads in a row that returned no bytes and were followed by
\* no sleep
NoLoop ==
  [pc |-> "none", pending |-> <<>>, cur |-> None, idx |-> 0, inv |-> <<>>,
   empty |-> 0]

Loops == 1..MaxLoops

Range(q) == {q[i] : i \in 1..Len(q)}

\* the threads that call control.send: a frame listener on the loop thread
\* and a driver thread of the application
Senders == {"listener", "driver"}
\* nobody holds the lock
NoThread == "nobody"
\* a thread that is not inside control.send
IdleSender == [pc |-> "idle", rec |-> <<>>, pos |-> 0, done |-> 0]

\* no handshake bytes under way
NoWire == [stream |-> <<>>, cuts |-> {}, pos |-> 0]

\* Client.__init__
Init ==
  /\ alive = FALSE
  /\ server_stream = "none"
  /\ video_socket = "none"
  /\ video_blocking = TRUE
  /\ control_socket = "none"
  /\ control_blocking = TRUE
  /\ device_name = "none"
  /\ resolution = <<>>
  /\ last_frame = None
  /\ listeners = [frame |-> <<>>, init |-> <<>>]
  /\ block_frame \in BOOLEAN
  /\ pc = "idle"
  /\ tries = 0
  /\ initIdx = 0
  /\ startResult = "none"
  /\ slot = 1
  /\ hs = <<>>
  /\ initLog = <<>>
  /\ stopped = FALSE
  /\ stop_pc = "idle"
  /\ loop = [a \in Loops |-> NoLoop]
  /\ sent = 0
  /\ calls = <<>>
  /\ control_socket_lock = NoThread
  /\ sender = [t \in Senders |-> IdleSender]
  /\ control_out = <<>>
  /\ wire = NoWire

\* ------------------------------------------------------------ start()

\* loop threads that are not running a __stream_loop
FreeSlots == {a \in Loops : loop[a].pc = "none"}

\* start() has changed alive or a resource: a stop() call that has returned
\* no longer describes the session
StartActed ==
  /\ stopped' = FALSE
  /\ UNCHANGED stop_pc

\* an exception leaves start(): the caller gets it, nothing is undone
Raise(step) ==
  /\ pc' = "idle"
  /\ startResult' = "error"
  /\ hs' = Append(hs, step)

\* start(threaded): assert self.alive is False
\* (the argument is read only where the loop is entered, see EnterLoop)
\* The call is made either when no __stream_loop of an earlier start() is
\* left, or beside one that has not ended yet.
StartCall(beside) ==
  /\ pc = "idle"
  /\ ~alive
  /\ IF beside THEN FreeSlots \notin {{}, Loops} ELSE FreeSlots = Loops
  /\ pc' = "deploy"
  /\ tries' = 0
  /\ hs' = <<>>
  /\ initLog' = <<>>
  /\ startResult' = "running"
  /\ UNCHANGED <<alive, resVars, infoVars, listeners, block_frame, initIdx,
                 slot, loopVars,
                 stopVars>>
  /\ UNCHANGED sideVars

\* __deploy_server: push the jar, run the server in a remote shell
DeployServer ==
  /\ pc = "deploy"
  /\ server_stream' = "open"
  /\ hs' = Append(hs, "deploy")
  /\ pc' = "connect"
  /\ UNCHANGED <<alive, video_socket, video_blocking, control_socket,
                 control_blocking, infoVars, listeners, block_frame, tries,
                 initIdx, startResult, slot, initLog, loopVars>>
  /\ StartActed
  /\ UNCHANGED sideVars

\* the retry loop with one iteration too many (range(31))
MoreAttempts_OneMore(made) == made < ConnectAttempts + 1

\* for _ in range(30): another iteration follows `made` attempts
MoreAttempts(made) == made < ConnectAttempts

\* try: self.__video_socket = create_connection(...); break
\* except AdbError: sleep(0.1)
\* One iteration of the retry loop: the attempt is accepted and the loop is
\* left, or it is refused and the thread sleeps before the next iteration.
ConnectAttempt(accepted) ==
  /\ pc = "connect"
  /\ MoreAttempts(tries)
  /\ tries' = tries + 1
  /\ IF accepted
       THEN /\ video_socket' = "open"
            /\ video_blocking' = TRUE
            /\ hs' = Append(hs, "vopen")
            /\ StartActed
            /\ pc' = "dummy"
       ELSE UNCHANGED <<video_socket, video_blocking, hs, stopVars, pc>>
  /\ UNCHANGED <<alive, server_stream, control_socket, control_blocking,
                 infoVars, listeners, block_frame, initIdx, startResult, slot,
                 initLog, loopVars>>
  /\ UNCHANGED sideVars

\* else: raise ConnectionError("Failed to connect scrcpy-server ...")
ConnectGiveUp ==
  /\ pc = "connect"
  /\ ~MoreAttempts(tries)
  /\ Raise("vfail")
  /\ UNCHANGED <<alive, resVars, infoVars, listeners, block_frame, tries,
                 initIdx, slot, initLog, loopVars, stopVars>>
  /\ UNCHANGED sideVars

\* __init_server_connection: open the video channel with bounded retry
ConnectVideo ==
  \/ \E accepted \in BOOLEAN : ConnectAttempt(accepted)
  \/ ConnectGiveUp

\* dummy_byte = self.__video_socket.recv(1)
\* if not len(dummy_byte): raise ConnectionError
\* (the retry loop is over: its attempt count is dropped)
RecvDummy ==
  /\ pc = "dummy"
  /\ tries' = 0
  /\ IF video_socket = "closed"
       THEN Raise("oserror")
       ELSE \E n \in {0, 1} :
              IF n = 0
                THEN Raise("dummy0")
                ELSE /\ hs' = Append(hs, "dummy")
                     /\ pc' = "control"
                     /\ UNCHANGED startResult
  /\ UNCHANGED <<alive, resVars, infoVars, listeners, block_frame,
                 initIdx, slot, initLog, loopVars,
                 stopVars>>
  /\ UNCHANGED sideVars

\* self.control_socket = self.device.create_connection(...)
OpenControl ==
  /\ pc = "control"
  /\ control_socket' = "open"
  /\ control_blocking' = TRUE
  /\ hs' = Append(hs, "copen")
  /\ pc' = "name"
  /\ UNCHANGED <<alive, server_stream, video_socket, video_blocking, infoVars,
                 listeners, block_frame, tries, initIdx, startResult, slot,
                 initLog, loopVars>>
  /\ StartActed
  /\ UNCHANGED sideVars

\* RecvName without the check for an empty device name
RecvName_NoEmptyCheck ==
  /\ pc = "name"
  /\ IF video_socket = "closed"
       THEN /\ Raise("oserror")
            /\ UNCHANGED device_name
       ELSE \E n \in NameReads :
              IF n = Undecodable
                THEN /\ Raise("utf8")
                     /\ UNCHANGED device_name
                ELSE /\ device_name' = n
                     /\ hs' = Append(hs, IF n = "" THEN "name0" ELSE "name")
                     /\ pc' = "res"
                     /\ UNCHANGED startResult
  /\ UNCHANGED <<alive, resVars, resolution, last_frame, listeners,
                 block_frame, tries, initIdx, slot, initLog, loopVars,
                 stopVars>>
  /\ UNCHANGED sideVars

\* self.device_name = recv(64).decode("utf-8").rstrip("\x00")
\* if not len(self.device_name): raise ConnectionError
\* (decode raises UnicodeDecodeError before device_name is assigned)
RecvName ==
  /\ pc = "name"
  /\ IF video_socket = "closed"
       THEN /\ Raise("oserror")
            /\ UNCHANGED device_name
       ELSE \E n \in NameReads :
              IF n = Undecodable
                THEN /\ Raise("utf8")
                     /\ UNCHANGED device_name
                ELSE /\ device_name' = n
                     /\ IF n = ""
                          THEN Raise("name0")
                          ELSE /\ hs' = Append(hs, "name")
                               /\ pc' = "res"
                               /\ UNCHANGED startResult
  /\ UNCHANGED <<alive, resVars, resolution, last_frame, listeners,
                 block_frame, tries, initIdx, slot, initLog,
                 loopVars,
                 stopVars>>
  /\ UNCHANGED sideVars

\* res = recv(4); self.resolution = struct.unpack(">HH", res)
RecvRes ==
  /\ pc = "res"
  /\ IF video_socket = "closed"
       THEN /\ Raise("oserror")
            /\ UNCHANGED resolution
       ELSE \E r \in ResReads :
              IF Len(r) # 2
                THEN /\ Raise("resbad")
                     /\ UNCHANGED resolution
                ELSE /\ resolution' = r
                     /\ hs' = Append(hs, "res")
                     /\ pc' = "nonblock"
                     /\ UNCHANGED startResult
  /\ UNCHANGED <<alive, resVars, device_name, last_frame, listeners,
                 block_frame, tries, initIdx, slot, initLog,
                 loopVars,
                 stopVars>>
  /\ UNCHANGED sideVars

\* SetNonBlocking applied to the control socket instead of the video socket
SetNonBlocking_Control ==
  /\ pc = "nonblock"
  /\ IF control_socket = "closed"
       THEN /\ Raise("oserror")
            /\ UNCHANGED control_blocking
       ELSE /\ control_blocking' = FALSE
            /\ hs' = Append(hs, "nonblock")
            /\ pc' = "setalive"
            /\ UNCHANGED startResult
  /\ UNCHANGED <<alive, server_stream, video_socket, video_blocking,
                 control_socket, infoVars, listeners, block_frame,
                 tries, initIdx, slot, initLog, loopVars, stopVars>>
  /\ UNCHANGED sideVars

\* self.__video_socket.setblocking(False)
SetNonBlocking ==
  /\ pc = "nonblock"
  /\ IF video_socket = "closed"
       THEN /\ Raise("oserror")
            /\ UNCHANGED video_blocking
       ELSE /\ video_blocking' = FALSE
            /\ hs' = Append(hs, "nonblock")
            /\ pc' = "setalive"
            /\ UNCHANGED startResult
  /\ UNCHANGED <<alive, server_stream, video_socket, control_socket,
                 control_blocking, infoVars, listeners, block_frame,
                 tries, initIdx, slot, initLog, loopVars,
                 stopVars>>
  /\ UNCHANGED sideVars

\* self.alive = True
SetAlive ==
  /\ pc = "setalive"
  /\ alive' = TRUE
  /\ initIdx' = 1
  /\ pc' = "init"
  /\ UNCHANGED <<resVars, infoVars, listeners, block_frame, tries,
                 startResult, slot, hs, initLog, loopVars>>
  /\ StartActed
  /\ UNCHANGED sideVars

\* for func in self.listeners[EVENT_INIT]: func(self)
InitDispatch ==
  /\ pc = "init"
  /\ initIdx <= Len(listeners.init)
  /\ initLog' = Append(initLog, listeners.init[initIdx])
  /\ initIdx' = initIdx + 1
  /\ UNCHANGED <<alive, resVars, infoVars, listeners, block_frame, pc,
                 tries, startResult, slot, hs, loopVars,
                 stopVars>>
  /\ UNCHANGED sideVars

\* EnterLoop that does not wait for the end of the init-listener iteration
EnterLoop_Early(threaded) ==
  /\ pc = "init"
  /\ LET a == CHOOSE x \in FreeSlots : \A y \in FreeSlots : x <= y IN
       /\ slot' = a
       /\ loop' = [loop EXCEPT ![a] = [NoLoop EXCEPT !.pc = "top"]]
  /\ initIdx' = 0
  /\ IF threaded
       THEN /\ pc' = "idle"
            /\ startResult' = "returned"
       ELSE /\ pc' = "inline"
            /\ UNCHANGED startResult
  /\ UNCHANGED <<alive, resVars, infoVars, listeners, block_frame, tries, hs,
                 initLog, sent, calls, stopVars>>
  /\ UNCHANGED sideVars

\* if threaded: Thread(target=self.__stream_loop).start()
\* else: self.__stream_loop()
EnterLoop(threaded) ==
  /\ pc = "init"
  /\ initIdx > Len(listeners.init)
  /\ LET a == CHOOSE x \in FreeSlots : \A y \in FreeSlots : x <= y IN
       /\ slot' = a
       /\ loop' = [loop EXCEPT ![a] = [NoLoop EXCEPT !.pc = "top"]]
  /\ initIdx' = 0
  /\ IF threaded
       THEN /\ pc' = "idle"
            /\ startResult' = "returned"
       ELSE /\ pc' = "inline"
            /\ UNCHANGED startResult
  /\ UNCHANGED <<alive, resVars, infoVars, listeners, block_frame, tries, hs,
                 initLog, sent, calls,
                 stopVars>>
  /\ UNCHANGED sideVars

\* start(threaded=False) ends when its inline __stream_loop ends
InlineReturn ==
  /\ pc = "inline"
  /\ loop[slot].pc \in {"done", "raised", "crashed"}
  /\ pc' = "idle"
  /\ startResult' = IF loop[slot].pc = "done" THEN "returned" ELSE "raised"
  /\ loop' = [loop EXCEPT ![slot] = NoLoop]
  /\ UNCHANGED <<alive, resVars, infoVars, listeners, block_frame, tries,
                 initIdx, slot, hs, initLog, sent, calls,
                 stopVars>>
  /\ UNCHANGED sideVars

\* ------------------------------------------------------------- stop()
\* x.close() for an attribute that is not None: the object is closed
\* afterwards, whether it was open or had been closed before
Close(st) == IF st = "none" THEN "none" ELSE "closed"

\* the resources in the order in which stop() closes them
CloseOrder == <<"server", "control", "video">>
\* stop() closes r before q
Before(r, q) ==
  \E i \in 1..Len(CloseOrder) : \E j \in 1..Len(CloseOrder) :
    i < j /\ CloseOrder[i] = r /\ CloseOrder[j] = q
\* where stop() goes after the statement for r; after the last one it returns
AfterClose(r) ==
  IF \E q \in Resources : Before(r, q)
    THEN CHOOSE q \in Resources :
           Before(r, q) /\ ~\E p \in Resources : Before(r, p) /\ Before(p, q)
    ELSE "idle"

\* resource r becomes st, the other resources stay as they are
SetState(r, st) ==
  /\ server_stream' = IF r = "server" THEN st ELSE server_stream
  /\ control_socket' = IF r = "control" THEN st ELSE control_socket
  /\ video_socket' = IF r = "video" THEN st ELSE video_socket

\* stop() goes on from the statement for r, or returns after the last one
StopAdvance(r) ==
  /\ stop_pc' = AfterClose(r)
  /\ stopped' = (stopped \/ AfterClose(r) = "idle")

\* stop(): self.alive = False
StopBegin ==
  /\ stop_pc = "idle"
  /\ alive' = FALSE
  /\ stop_pc' = CloseOrder[1]
  /\ UNCHANGED <<resVars, infoVars, listeners, block_frame, mainVars,
                 loopVars, stopped>>
  /\ UNCHANGED sideVars

\* if self.__server_stream is not None: self.__server_stream.close()
\* if self.control_socket is not None: self.control_socket.close()
\* if self.__video_socket is not None: self.__video_socket.close()
\* One of the three statements of stop(), for resource r: the attribute is
\* never set back to None, so close() is called on every object that start()
\* has ever assigned, open or closed.
StopClose(r) ==
  /\ stop_pc = r
  /\ SetState(r, Close(StateOf(r)))
  /\ StopAdvance(r)
  /\ UNCHANGED <<alive, video_blocking, control_blocking, infoVars, listeners,
                 block_frame, mainVars, loopVars>>
  /\ UNCHANGED sideVars

\* stop(): its four statements, each a step of the calling thread
Stop ==
  \/ StopBegin
  \/ \E r \in Resources : StopClose(r)

\* the statement of stop() for the open resource `failing`, whose close()
\* raises: the object has given up its descriptor and counts as closed, the
\* exception leaves stop(), the statements after it are not reached
StopCloseFails(failing) ==
  /\ stop_pc = failing
  /\ StateOf(failing) = "open"
  /\ SetState(failing, "closed")
  /\ stop_pc' = "idle"
  /\ stopped' = FALSE
  /\ UNCHANGED <<alive, video_blocking, control_blocking, infoVars, listeners,
                 block_frame, mainVars, loopVars>>
  /\ UNCHANGED sideVars

\* ------------------------------------------------- listener registration
\* on_init(func): self.listeners[EVENT_INIT].append(func)
on_init(func) ==
  /\ func = NextFunc(listeners.init)
  /\ Len(listeners.init) < MaxListeners
  /\ listeners' = [listeners EXCEPT !.init = Append(@, func)]
  /\ UNCHANGED <<alive, resVars, infoVars, block_frame, mainVars, loopVars,
                 stopVars>>
  /\ UNCHANGED sideVars

\* on_frame(func): self.listeners[EVENT_FRAME].append(func)
on_frame(func) ==
  /\ func = NextFunc(listeners.frame)
  /\ Len(listeners.frame) < MaxListeners
  /\ listeners' = [listeners EXCEPT !.frame = Append(@, func)]
  /\ UNCHANGED <<alive, resVars, infoVars, block_frame, mainVars, loopVars,
                 stopVars>>
  /\ UNCHANGED sideVars

\* ------------------------------------------------------ __stream_loop
\* frames sent+1 .. sent+k, in the order the socket delivers them
Arrived(k) == [i \in 1..k |-> sent + i]

\* for packet in codec.parse(raw): for frame in codec.decode(packet):
\*   frame = frame.to_ndarray(format="bgr24")
\* The next frame of this read, if any, is decoded into the local variable
\* of the loop thread, which then stands before `self.last_frame = frame`;
\* without one the thread is back at the loop condition.  Nothing here
\* touches the session.
NextFrame(a, frames) ==
  IF frames = <<>>
    THEN loop' = [loop EXCEPT ![a] = [NoLoop EXCEPT !.pc = "top"]]
    ELSE loop' = [loop EXCEPT ![a].pc = "frame",
                              ![a].pending = Tail(frames),
                              ![a].cur = Head(frames),
                              ![a].idx = 0]

\* self.last_frame = frame
SetLastFrame(a) ==
  /\ loop[a].pc = "frame"
  /\ last_frame' = loop[a].cur
  /\ loop' = [loop EXCEPT ![a].pc = "resolution"]
  /\ UNCHANGED <<alive, resVars, device_name, resolution, listeners,
                 block_frame, mainVars, sent, calls, stopVars>>
  /\ UNCHANGED sideVars

\* self.resolution = (frame.shape[1], frame.shape[0])
\* (the listener iteration of the frame starts after it)
SetResolution(a) ==
  /\ loop[a].pc = "resolution"
  /\ resolution' = Geometry(loop[a].cur)
  /\ loop' = [loop EXCEPT ![a].pc = "emit", ![a].idx = 1]
  /\ UNCHANGED <<alive, resVars, device_name, last_frame, listeners,
                 block_frame, mainVars, sent, calls, stopVars>>
  /\ UNCHANGED sideVars

\* while self.alive: (enters the body)
LoopTest(a) ==
  /\ loop[a].pc = "top"
  /\ alive
  /\ loop' = [loop EXCEPT ![a].pc = "recv"]
  /\ UNCHANGED <<alive, resVars, infoVars, listeners, block_frame, mainVars,
                 sent, calls, stopVars>>
  /\ UNCHANGED sideVars

\* while self.alive: (leaves the loop)
LoopExit(a) ==
  /\ loop[a].pc = "top"
  /\ ~alive
  /\ loop' = [loop EXCEPT ![a] = [NoLoop EXCEPT !.pc = "done"]]
  /\ UNCHANGED <<alive, resVars, infoVars, listeners, block_frame, mainVars,
                 sent, calls,
                 stopVars>>
  /\ UNCHANGED sideVars

\* try: raw = self.__video_socket.recv(0x10000) returns data that
\* completes k frames; the first of them is decoded
LoopRecv(a) ==
  /\ loop[a].pc = "recv"
  /\ video_socket = "open"
  /\ \E k \in 0..(MaxFrames - sent) :
       /\ sent' = sent + k
       /\ NextFrame(a, Arrived(k))
  /\ UNCHANGED <<alive, resVars, infoVars, listeners, block_frame,
                 mainVars, calls,
                 stopVars>>
  /\ UNCHANGED sideVars

\* LoopBlocked that hands None to the listeners whatever block_frame is
LoopBlocked_IgnoreFlag(a) ==
  /\ loop[a].pc = "recv"
  /\ video_socket = "open"
  /\ ~video_blocking
  /\ loop' = [loop EXCEPT ![a] =
                [NoLoop EXCEPT !.pc = "emit", !.cur = None, !.idx = 1]]
  /\ UNCHANGED <<alive, resVars, infoVars, listeners, block_frame, mainVars,
                 sent, calls, stopVars>>
  /\ UNCHANGED sideVars

\* recv raises BlockingIOError: time.sleep(0.01);
\* if not self.block_frame: the listeners get None
LoopBlocked(a) ==
  /\ loop[a].pc = "recv"
  /\ video_socket = "open"
  /\ ~video_blocking
  /\ loop' = [loop EXCEPT ![a] =
                IF block_frame
                  THEN [NoLoop EXCEPT !.pc = "top"]
                  ELSE [NoLoop EXCEPT !.pc = "emit", !.cur = None, !.idx = 1]]
  /\ UNCHANGED <<alive, resVars, infoVars, listeners, block_frame, mainVars,
                 sent, calls,
                 stopVars>>
  /\ UNCHANGED sideVars

\* recv raises OSError: the socket was closed, or the connection broke
LoopRecvError(a) ==
  /\ loop[a].pc = "recv"
  /\ video_socket \in {"open", "closed"}
  /\ loop' = [loop EXCEPT ![a] = [NoLoop EXCEPT !.pc = "oserr"]]
  /\ UNCHANGED <<alive, resVars, infoVars, listeners, block_frame, mainVars,
                 sent, calls,
                 stopVars>>
  /\ UNCHANGED sideVars

\* for func in self.listeners[EVENT_FRAME]: func(self, frame)
LoopEmit(a) ==
  /\ loop[a].pc = "emit"
  /\ loop[a].idx <= Len(listeners.frame)
  /\ LET call == <<listeners.frame[loop[a].idx], loop[a].cur>> IN
       /\ loop' = [loop EXCEPT ![a].idx = @ + 1,
                               ![a].inv = Append(@, call)]
       /\ calls' = IF loop[a].cur = None THEN calls ELSE Append(calls, call)
  /\ UNCHANGED <<alive, resVars, infoVars, listeners, block_frame, mainVars,
                 sent,
                 stopVars>>
  /\ UNCHANGED sideVars

\* the listener iteration is exhausted: the next frame of the read is
\* decoded, or the loop goes to its next read
LoopEmitEnd(a) ==
  /\ loop[a].pc = "emit"
  /\ loop[a].idx > Len(listeners.frame)
  /\ NextFrame(a, loop[a].pending)
  /\ UNCHANGED <<alive, resVars, infoVars, listeners, block_frame,
                 mainVars, sent, calls,
                 stopVars>>
  /\ UNCHANGED sideVars

\* LoopOSError that re-raises without looking at self.alive
LoopOSError_AlwaysRaise(a) ==
  /\ loop[a].pc = "oserr"
  /\ loop' = [loop EXCEPT ![a].pc = "raised"]
  /\ UNCHANGED <<alive, resVars, infoVars, listeners, block_frame, mainVars,
                 sent, calls, stopVars>>
  /\ UNCHANGED sideVars

\* except OSError as e: if self.alive: raise e
LoopOSError(a) ==
  /\ loop[a].pc = "oserr"
  /\ loop' = [loop EXCEPT ![a].pc = IF alive THEN "raised" ELSE "top"]
  /\ UNCHANGED <<alive, resVars, infoVars, listeners, block_frame, mainVars,
                 sent, calls,
                 stopVars>>
  /\ UNCHANGED sideVars

\* the worker thread of start(threaded=True) ends with its loop
ThreadEnd(a) ==
  /\ loop[a].pc \in {"done", "raised", "crashed"}
  /\ ~(pc = "inline" /\ slot = a)
  /\ loop' = [loop EXCEPT ![a] = NoLoop]
  /\ UNCHANGED <<alive, resVars, infoVars, listeners, block_frame, mainVars,
                 sent, calls,
                 stopVars>>
  /\ UNCHANGED sideVars

\* ------------------------------------------------------ specification
\* The session from its construction: any interleaving of start(), stop(),
\* the registrations and the loop, with start() called when no loop of an
\* earlier start() is left (RestartSpec below adds the calls beside one).
Next ==
  \/ StartCall(FALSE)
  \/ DeployServer
  \/ ConnectVideo
  \/ RecvDummy
  \/ OpenControl
  \/ RecvName
  \/ RecvRes
  \/ SetNonBlocking
  \/ SetAlive
  \/ InitDispatch
  \/ \E threaded \in BOOLEAN : EnterLoop(threaded)
  \/ InlineReturn
  \/ Stop
  \/ \E func \in Range(Funcs) : on_init(func)
  \/ \E func \in Range(Funcs) : on_frame(func)
  \/ \E a \in Loops : LoopTest(a)
  \/ \E a \in Loops : LoopExit(a)
  \/ \E a \in Loops : LoopRecv(a)
  \/ \E a \in Loops : LoopBlocked(a)
  \/ \E a \in Loops : LoopRecvError(a)
  \/ \E a \in Loops : SetLastFrame(a)
  \/ \E a \in Loops : SetResolution(a)
  \/ \E a \in Loops : LoopEmit(a)
  \/ \E a \in Loops : LoopEmitEnd(a)
  \/ \E a \in Loops : LoopOSError(a)
  \/ \E a \in Loops : ThreadEnd(a)

Spec == Init /\ [][Next]_vars

\* one step of loop thread a: an iteration of its __stream_loop makes its
\* read and handles what the read gives, and the thread ends with its loop
LoopStep(a) ==
  \/ LoopTest(a)
  \/ LoopExit(a)
  \/ LoopRecv(a)
  \/ LoopBlocked(a)
  \/ LoopRecvError(a)
  \/ SetLastFrame(a)
  \/ SetResolution(a)
  \/ LoopEmit(a)
  \/ LoopEmitEnd(a)
  \/ LoopOSError(a)
  \/ ThreadEnd(a)

\* fair scheduling: a loop thread that can take a step eventually takes one
\* (recv on the non-blocking socket and the listeners return),
\* start(threaded=False) returns once its loop has ended, and a thread
\* inside stop() goes on to its next statement
Fairness ==
  /\ \A a \in Loops : WF_vars(LoopStep(a))
  /\ WF_vars(InlineReturn)
  /\ WF_vars(\E r \in Resources : StopClose(r))

FairSpec == Spec /\ Fairness

\* ------------------------------------------------------------ faults
\* codec.parse / codec.decode raise on a malformed access unit (PyAV's
\* InvalidDataError, a ValueError): neither except clause of the loop
\* matches, the exception leaves __stream_loop.  The unit is the first of a
\* read, or it follows a frame of the same read once the listeners have
\* returned; the frames of the read behind it are lost.
LoopDecodeError(a) ==
  /\ \/ /\ loop[a].pc = "recv"
        /\ video_socket = "open"
     \/ /\ loop[a].pc = "emit"
        /\ loop[a].cur # None
        /\ loop[a].idx > Len(listeners.frame)
  /\ loop' = [loop EXCEPT ![a] = [NoLoop EXCEPT !.pc = "crashed"]]
  /\ UNCHANGED <<alive, resVars, infoVars, listeners, block_frame, mainVars,
                 sent, calls, stopVars>>
  /\ UNCHANGED sideVars

\* recv returns b"" because the server has closed the video channel:
\* codec.parse(b"") yields no packet and the loop goes back to its
\* condition; no except clause runs, so nothing sleeps
LoopRecvEmpty(a) ==
  /\ loop[a].pc = "recv"
  /\ video_socket = "open"
  /\ loop[a].empty < MaxSpin
  /\ loop' = [loop EXCEPT ![a] =
                [NoLoop EXCEPT !.pc = "top", !.empty = loop[a].empty + 1]]
  /\ UNCHANGED <<alive, resVars, infoVars, listeners, block_frame, mainVars,
                 sent, calls, stopVars>>
  /\ UNCHANGED sideVars

\* The session together with the faults of its environment: a close() that
\* raises, a malformed access unit, the end of the video stream.
FaultNext ==
  \/ Next
  \/ \E failing \in Resources : StopCloseFails(failing)
  \/ \E a \in Loops : LoopDecodeError(a)
  \/ \E a \in Loops : LoopRecvEmpty(a)

\* Client(block_frame=True, ...), the session that demo.py and the test make
FaultInit == Init /\ block_frame

FaultSpec == FaultInit /\ [][FaultNext]_vars

\* ------------------------------------------------- ControlSender.send
\* scrcpy/control.py is not part of the sources at hand; send is modelled
\* from the specification: a record is a one-byte type tag followed by its
\* payload, and one mutual-exclusion scope guards the full write of a record.

clientVars == <<alive, resVars, infoVars, listeners, block_frame, mainVars,
                stopVars, loopVars>>

\* the records the threads send: rotate-device has no payload, a key event
\* carries action and keycode (payload bytes are abstract values)
Records == {<<"rotate">>, <<"key", "down", "k">>}

\* a started session: start(threaded=True) has returned, the loop runs
Started ==
  /\ alive = TRUE
  /\ server_stream = "open"
  /\ video_socket = "open"
  /\ video_blocking = FALSE
  /\ control_socket = "open"
  /\ control_blocking = TRUE
  /\ device_name = "dev"
  /\ resolution = <<3, 2>>
  /\ last_frame = None
  /\ listeners = [frame |-> <<"f">>, init |-> <<>>]
  /\ block_frame \in BOOLEAN
  /\ pc = "idle"
  /\ tries = 0
  /\ initIdx = 0
  /\ startResult = "returned"
  /\ slot = 1
  /\ hs = <<"deploy", "vopen", "dummy", "copen", "name", "res", "nonblock">>
  /\ initLog = <<>>
  /\ stopped = FALSE
  /\ stop_pc = "idle"
  /\ loop = [a \in Loops |-> IF a = 1 THEN [NoLoop EXCEPT !.pc = "top"]
                                      ELSE NoLoop]
  /\ sent = 0
  /\ calls = <<>>

ControlInit ==
  /\ Started
  /\ control_socket_lock = NoThread
  /\ sender = [t \in Senders |-> IdleSender]
  /\ control_out = <<>>
  /\ wire = NoWire

\* a lock that excludes nobody
CanAcquire_NoExclusion(holder) == TRUE

\* self.control_socket_lock = threading.Lock()
\* a thread can take the lock only while nobody holds it
CanAcquire(holder) == holder = NoThread

\* send(command): the command is serialized into its record
SendCall(t, rec) ==
  /\ sender[t].pc = "idle"
  /\ sender[t].done < MaxSends
  /\ sender' = [sender EXCEPT ![t].pc = "lock", ![t].rec = rec, ![t].pos = 1]
  /\ UNCHANGED <<clientVars, control_socket_lock, control_out, wire>>

\* the sender enters the mutual-exclusion scope
Acquire(t) ==
  /\ sender[t].pc = "lock"
  /\ CanAcquire(control_socket_lock)
  /\ control_socket_lock' = t
  /\ sender' = [sender EXCEPT ![t].pc = "write"]
  /\ UNCHANGED <<clientVars, control_out, wire>>

\* the next byte of the record reaches the control socket
WriteByte(t) ==
  /\ sender[t].pc = "write"
  /\ sender[t].pos <= Len(sender[t].rec)
  /\ control_out' = Append(control_out,
       [by |-> t, no |-> sender[t].done + 1, at |-> sender[t].pos,
        of |-> Len(sender[t].rec), byte |-> sender[t].rec[sender[t].pos]])
  /\ sender' = [sender EXCEPT ![t].pos = @ + 1]
  /\ UNCHANGED <<clientVars, control_socket_lock, wire>>

\* the record is written: the sender leaves the scope and send returns
Release(t) ==
  /\ sender[t].pc = "write"
  /\ sender[t].pos > Len(sender[t].rec)
  /\ control_socket_lock' = NoThread
  /\ sender' = [sender EXCEPT ![t] =
                  [IdleSender EXCEPT !.done = sender[t].done + 1]]
  /\ UNCHANGED <<clientVars, control_out, wire>>

ControlNext ==
  \/ \E t \in Senders : \E rec \in Records : SendCall(t, rec)
  \/ \E t \in Senders : Acquire(t)
  \/ \E t \in Senders : WriteByte(t)
  \/ \E t \in Senders : Release(t)

ControlSpec == ControlInit /\ [][ControlNext]_vars

\* ------------------------------------------------------------ restart
\* A started session whose listeners were all registered before start(), as
\* demo.py does, and on which start() is also called beside the loop of an
\* earlier start().
RestartInit == ControlInit /\ block_frame

RestartNext ==
  \/ \E beside \in BOOLEAN : StartCall(beside)
  \/ DeployServer
  \/ ConnectVideo
  \/ RecvDummy
  \/ OpenControl
  \/ RecvName
  \/ RecvRes
  \/ SetNonBlocking
  \/ SetAlive
  \/ \E threaded \in BOOLEAN : EnterLoop(threaded)
  \/ InlineReturn
  \/ Stop
  \/ \E a \in Loops : LoopStep(a)

RestartSpec == RestartInit /\ [][RestartNext]_vars

FairRestartSpec == RestartSpec /\ Fairness

\* ------------------------------------- the handshake reads, byte by byte
\* The server sends 1 dummy byte, the device name padded with null bytes to
\* 64 bytes, and 4 resolution bytes; the transport delivers them in segments
\* that end at the positions in wire.cuts.

Min(x, y) == IF x <= y THEN x ELSE y

\* n null bytes
Nulls(n) == [i \in 1..n |-> 0]

\* device names as UTF-8 bytes: "dev", "é" (two bytes), "a\x00b"
NameBytes == {<<100, 101, 118>>, <<195, 169>>, <<97, 0, 98>>}
\* resolutions as sent: 3 x 2 and 1080 x 600
ResBytes == {<<0, 3, 0, 2>>, <<4, 56, 2, 88>>}
\* where a segment of the transport can end: after the dummy byte, inside
\* the name, after the name, inside the resolution
CutPoints == {DummyLen, DummyLen + 1, DummyLen + NameLen, DummyLen + NameLen + 2}

\* socket.recv(n) on the blocking video socket: the bytes of the current
\* segment that are left, at most n of them
Recv(w, n) ==
  LET ends == {c \in w.cuts : c > w.pos} \cup {Len(w.stream)}
      seg == CHOOSE c \in ends : \A d \in ends : c <= d
  IN SubSeq(w.stream, w.pos + 1, Min(w.pos + n, seg))

\* bytes.decode("utf-8") for one- and two-byte sequences: the code points,
\* or ok = FALSE where Python raises UnicodeDecodeError
Utf8Decode(bs) ==
  LET IsLead(i) == bs[i] \in 194..223
      IsCont(i) == bs[i] \in 128..191
      starts == {i \in 1..Len(bs) : bs[i] < 128 \/ IsLead(i)}
      Nth(k) == CHOOSE i \in starts : Cardinality({j \in starts : j <= i}) = k
      Char(i) == IF bs[i] < 128 \/ i = Len(bs) THEN bs[i]
                 ELSE (bs[i] - 192) * 64 + (bs[i + 1] - 128)
  IN [ok |-> \A i \in 1..Len(bs) :
               /\ bs[i] < 128 \/ IsLead(i) \/ IsCont(i)
               /\ (IsLead(i) => i < Len(bs) /\ IsCont(i + 1))
               /\ (IsCont(i) => i > 1 /\ IsLead(i - 1)),
      chars |-> [k \in 1..Cardinality(starts) |-> Char(Nth(k))]]

\* str.rstrip("\x00")
Rstrip(cs) ==
  LET keep == {i \in 1..Len(cs) : cs[i] # 0}
      n == IF keep = {} THEN 0 ELSE CHOOSE i \in keep : \A j \in keep : j <= i
  IN SubSeq(cs, 1, n)

\* struct.unpack(">HH", res): two big-endian unsigned 16-bit integers
Unpack(res) == <<res[1] * 256 + res[2], res[3] * 256 + res[4]>>

\* start() has opened the video channel; the server's bytes are under way
ParseInit ==
  /\ alive = FALSE
  /\ server_stream = "open"
  /\ video_socket = "open"
  /\ video_blocking = TRUE
  /\ control_socket = "none"
  /\ control_blocking = TRUE
  /\ device_name = "none"
  /\ resolution = <<>>
  /\ last_frame = None
  /\ listeners = [frame |-> <<>>, init |-> <<>>]
  /\ block_frame = FALSE
  /\ pc = "dummy"
  /\ tries = 1
  /\ initIdx = 0
  /\ startResult = "running"
  /\ slot = 1
  /\ hs = <<"deploy", "vopen">>
  /\ initLog = <<>>
  /\ stopped = FALSE
  /\ stop_pc = "idle"
  /\ loop = [a \in Loops |-> NoLoop]
  /\ sent = 0
  /\ calls = <<>>
  /\ control_socket_lock = NoThread
  /\ sender = [t \in Senders |-> IdleSender]
  /\ control_out = <<>>
  /\ \E name \in NameBytes : \E res \in ResBytes : \E cuts \in SUBSET CutPoints :
       wire = [stream |-> <<1>> \o name \o Nulls(NameLen - Len(name)) \o res,
               cuts |-> cuts, pos |-> 0]

\* dummy_byte = self.__video_socket.recv(1)
\* if not len(dummy_byte): raise ConnectionError
ReadDummy ==
  /\ pc = "dummy"
  /\ LET dummy_byte == Recv(wire, DummyLen) IN
       /\ wire' = [wire EXCEPT !.pos = @ + Len(dummy_byte)]
       /\ IF Len(dummy_byte) = 0
            THEN Raise("dummy0")
            ELSE /\ hs' = Append(hs, "dummy")
                 /\ pc' = "control"
                 /\ UNCHANGED startResult
  /\ tries' = 0
  /\ UNCHANGED <<alive, resVars, infoVars, listeners, block_frame,
                 initIdx, slot, initLog, loopVars, stopVars, ctlVars>>

\* self.device_name = recv(64).decode("utf-8").rstrip("\x00")
\* if not len(self.device_name): raise ConnectionError
ReadName ==
  /\ pc = "name"
  /\ LET raw == Recv(wire, NameLen)
         text == Utf8Decode(raw)
     IN
       /\ wire' = [wire EXCEPT !.pos = @ + Len(raw)]
       /\ IF ~text.ok
            THEN /\ Raise("utf8")
                 /\ UNCHANGED device_name
            ELSE /\ device_name' = Rstrip(text.chars)
                 /\ IF Len(Rstrip(text.chars)) = 0
                      THEN Raise("name0")
                      ELSE /\ hs' = Append(hs, "name")
                           /\ pc' = "res"
                           /\ UNCHANGED startResult
  /\ UNCHANGED <<alive, resVars, resolution, last_frame, listeners,
                 block_frame, tries, initIdx, slot, initLog, loopVars,
                 stopVars, ctlVars>>

\* res = self.__video_socket.recv(4)
\* self.resolution = struct.unpack(">HH", res)
ReadRes ==
  /\ pc = "res"
  /\ LET res == Recv(wire, ResLen) IN
       /\ wire' = [wire EXCEPT !.pos = @ + Len(res)]
       /\ IF Len(res) # ResLen
            THEN /\ Raise("resbad")
                 /\ UNCHANGED resolution
            ELSE /\ resolution' = Unpack(res)
                 /\ hs' = Append(hs, "res")
                 /\ pc' = "nonblock"
                 /\ UNCHANGED startResult
  /\ UNCHANGED <<alive, resVars, device_name, last_frame, listeners,
                 block_frame, tries, initIdx, slot, initLog, loopVars,
                 stopVars, ctlVars>>

\* the handshake of __init_server_connection from the dummy byte on
ParseNext ==
  \/ ReadDummy
  \/ OpenControl
  \/ ReadName
  \/ ReadRes
  \/ SetNonBlocking

ParseSpec == ParseInit /\ [][ParseNext]_vars

\* ------------------------------------------------------------- claims
Last(q) == q[Len(q)]
IsPrefix(p, q) == Len(p) <= Len(q) /\ \A i \in 1..Len(p) : p[i] = q[i]

\* the handshake steps of __deploy_server and __init_server_connection
HandshakeOrder ==
  <<"deploy", "vopen", "dummy", "copen", "name", "res", "nonblock">>
\* the ways a handshake step fails
FailSteps == {"vfail", "dummy0", "name0", "resbad", "oserror", "utf8"}
HandshakeFailed == hs # <<>> /\ Last(hs) \in FailSteps
\* loop thread a is executing its __stream_loop
Running(a) ==
  loop[a].pc \in {"top", "recv", "frame", "resolution", "emit", "oserr"}

\* C1: start() is accepted only in state Created: after a start() that
\* started the session (it returned, or its inline loop ended), no further
\* start() call is accepted, whether or not stop() was called in between.
C1_StartOnlyInCreated ==
  [][(pc = "idle" /\ startResult \in {"returned", "raised"}) => pc' = "idle"]_vars

\* C2: when a handshake step of start() fails, start() ends with an error
\* and alive is false, no init listener was invoked, and until the next
\* start() call no loop is entered and no frame listener is invoked other
\* than by a loop that an earlier start() left running.
C2_FailedHandshakeNeverAlive ==
  /\ [](HandshakeFailed =>
          /\ pc = "idle"
          /\ startResult = "error"
          /\ ~alive
          /\ initLog = <<>>)
  /\ [][HandshakeFailed =>
          /\ ~alive'
          /\ initLog' = <<>>
          /\ \A a \in Loops : loop[a].pc = "none" => loop'[a].pc = "none"
          /\ ((\A a \in Loops : ~Running(a)) => calls' = calls)]_vars

\* a start() failed on an empty device name, after both channels were opened
C2_Witness ==
  /\ HandshakeFailed
  /\ Last(hs) = "name0"
  /\ startResult = "error"
  /\ control_socket = "open"

\* C3: the video channel is opened with at most 30 attempts; when all 30
\* fail start() fails without having opened the control channel or read
\* from the video channel; after a successful attempt no further attempt
\* is made.
C3_BoundedVideoRetry ==
  /\ tries <= ConnectAttempts
  /\ ("vfail" \in Range(hs) =>
        /\ hs = <<"deploy", "vfail">>
        /\ tries = ConnectAttempts
        /\ pc = "idle"
        /\ startResult = "error"
        /\ ~alive)
  /\ ("vopen" \in Range(hs) =>
        /\ pc # "connect"
        /\ Cardinality({i \in 1..Len(hs) : hs[i] = "vopen"}) = 1
        /\ "vfail" \notin Range(hs))
  /\ (pc = "dummy" => tries \in 1..ConnectAttempts)

\* all 30 attempts failed and start() ended with the connection error
C3_Witness ==
  /\ hs = <<"deploy", "vfail">>
  /\ tries = ConnectAttempts
  /\ startResult = "error"
  /\ control_socket = "none"

\* C4: the handshake steps run in the order deploy, open video, read the
\* dummy byte, open control, read name, read resolution, set the video
\* socket non-blocking; the video socket stays blocking until that last
\* step and the control socket is never made non-blocking.
C4_HandshakeOrder ==
  /\ IF HandshakeFailed
       THEN IsPrefix(SubSeq(hs, 1, Len(hs) - 1), HandshakeOrder)
       ELSE IsPrefix(hs, HandshakeOrder)
  /\ control_blocking
  /\ (pc \in {"dummy", "control", "name", "res", "nonblock"} => video_blocking)
  /\ (pc \in {"setalive", "init"} => hs = HandshakeOrder)
  /\ (alive => hs = HandshakeOrder /\ ~video_blocking)

\* a start() completed the whole handshake and made the session alive
C4_Witness ==
  /\ alive
  /\ pc = "init"
  /\ hs = HandshakeOrder
  /\ ~video_blocking
  /\ control_socket = "open"

\* C5: a successful start() invokes the init listeners one by one in
\* registration order, each once, only after alive was set; its loop is
\* entered in the step that ends the dispatch, when every registered init
\* listener has been invoked; a listener registered later is not invoked
\* by that start().
C5_InitDispatch ==
  /\ [](/\ IsPrefix(initLog, listeners.init)
        /\ (initLog # <<>> => hs = HandshakeOrder /\ startResult # "error")
        /\ (pc = "init" => Len(initLog) = initIdx - 1 /\ hs = HandshakeOrder))
  /\ [][/\ (initLog' # initLog =>
              \/ initLog' = <<>> /\ pc = "idle" /\ pc' = "deploy"
              \/ /\ pc = "init" /\ pc' = "init"
                 /\ Len(initLog) < Len(listeners.init)
                 /\ initLog' = Append(initLog, listeners.init[Len(initLog) + 1]))
        /\ (pc = "init" /\ pc' # "init" =>
              /\ initLog = listeners.init
              /\ initLog' = initLog
              /\ loop'[slot'].pc = "top" /\ loop[slot'].pc = "none")
        /\ (\A a \in Loops : loop[a].pc = "none" /\ loop'[a].pc # "none" =>
              pc = "init" /\ initLog = listeners.init /\ slot' = a)
        /\ (pc' = "init" /\ pc # "init" => alive' /\ initLog' = <<>>)]_vars

\* start(threaded=True) returned after invoking the one init listener that
\* was registered; a second one registered afterwards was not invoked
C5_Witness ==
  /\ startResult = "returned"
  /\ alive
  /\ initLog = <<"f">>
  /\ listeners.init = <<"f", "g">>
  /\ Running(slot)

\* C6: frame listeners see the frames in arrival order, every listener
\* finishes frame Fi before any listener sees Fi+1, and for one frame the
\* listeners are invoked once each in registration order.
C6_FrameOrder ==
  /\ \A i \in 1..Len(calls) : \A j \in 1..Len(calls) :
       i < j => calls[i][2] <= calls[j][2]
  /\ \A f \in Frames :
       LET at == {i \in 1..Len(calls) : calls[i][2] = f} IN
         \A i \in at :
           calls[i][1] = listeners.frame[Cardinality({j \in at : j <= i})]

\* the invocations of the current iteration of loop a are the first n frame
\* listeners in registration order, each with frame v
InvokedInOrder(a, n, v) ==
  loop[a].inv = [i \in 1..n |-> <<listeners.frame[i], v>>]

\* C7: an iteration whose read would block invokes every frame listener
\* once with None when block_frame is false and invokes none when
\* block_frame is true; with block_frame no invocation ever carries None.
C7_DeliveryMode ==
  /\ [](\A a \in Loops :
          /\ (block_frame =>
                /\ loop[a].cur = None
                     => loop[a].pc # "emit" /\ loop[a].inv = <<>>
                /\ \A i \in 1..Len(loop[a].inv) : loop[a].inv[i][2] # None)
          /\ (loop[a].pc = "emit" /\ loop[a].cur = None =>
                /\ ~block_frame
                /\ loop[a].idx <= Len(listeners.frame) + 1
                /\ InvokedInOrder(a, loop[a].idx - 1, None)))
  /\ [][\A a \in Loops :
          /\ (loop[a].pc = "emit" /\ loop[a].cur = None
                /\ loop'[a].pc # "emit" =>
                InvokedInOrder(a, Len(listeners.frame), None))
          /\ (loop[a].pc # "emit" /\ loop'[a].pc = "emit"
                /\ loop'[a].cur = None =>
                /\ loop[a].pc = "recv"
                /\ ~block_frame /\ ~video_blocking /\ sent' = sent)
          /\ (block_frame /\ loop[a].pc # "emit" /\ loop'[a].pc = "emit" =>
                /\ loop[a].pc = "resolution"
                /\ loop'[a].cur = loop[a].cur
                /\ loop[a].cur \in 1..sent)
          /\ (loop[a].pc = "recv" /\ loop'[a].pc = "frame" =>
                sent' > sent /\ loop'[a].cur = sent + 1)]_vars

\* with block_frame false a would-block iteration has invoked both
\* registered frame listeners with None
C7_Witness ==
  \E a \in Loops :
    /\ ~block_frame
    /\ loop[a].pc = "emit"
    /\ loop[a].cur = None
    /\ loop[a].inv = <<<<"f", None>>, <<"g", None>>>>

\* C8: a hard I/O error of the video-socket read leaves the loop as a
\* raised exception exactly when alive is true at the check; when alive is
\* false it is swallowed and the loop goes back to its loop condition; a
\* loop raises in no other way.
C8_StreamErrorPolicy ==
  [][\A a \in Loops :
       /\ (loop[a].pc = "oserr" /\ loop'[a].pc # "oserr" =>
             IF alive THEN loop'[a].pc = "raised" ELSE loop'[a].pc = "top")
       /\ (loop'[a].pc = "raised" /\ loop[a].pc # "raised" =>
             loop[a].pc = "oserr" /\ alive)]_vars

\* the inline loop of start(threaded=False) raised the I/O error while the
\* session was alive
C8_Witness ==
  /\ pc = "inline"
  /\ loop[slot].pc = "raised"
  /\ alive

\* stop() executes its statement for resource r
ClosesResource(r) == stop_pc = r /\ stop_pc' # r

\* C9: whenever a stop() call has returned and start() has not acted since
\* its return, in whatever state stop() was called and however often, alive
\* is false and no resource is open; and stop() never calls close() on a
\* resource that has been closed already.
C9_StopIdempotent ==
  /\ [](stopped =>
          /\ ~alive
          /\ \A r \in Resources : StateOf(r) # "open")
  /\ [][\A r \in Resources :
          ClosesResource(r) => StateOf(r) # "closed"]_vars

\* C10: once alive is cleared every executing loop eventually ends.
C10_LoopEndsAfterStop ==
  \A a \in Loops : (Running(a) /\ ~alive) ~> ~Running(a)

\* bytes i and j of the control stream belong to the same record
SameRecord(i, j) ==
  control_out[i].by = control_out[j].by /\ control_out[i].no = control_out[j].no

\* C11: the bytes on the control socket are a concatenation of whole
\* records: every byte that is not the first of its record directly follows
\* the previous byte of the same record, and a record is incomplete only at
\* the end of the stream while its sender is inside the locked scope.
C11_AtomicRecords ==
  \A i \in 1..Len(control_out) :
    /\ (control_out[i].at > 1 =>
          /\ i > 1
          /\ SameRecord(i - 1, i)
          /\ control_out[i - 1].at = control_out[i].at - 1)
    /\ (control_out[i].at = 1 /\ i > 1 =>
          control_out[i - 1].at = control_out[i - 1].of)
    /\ (control_out[i].at < control_out[i].of /\ i = Len(control_out) =>
          /\ control_socket_lock = control_out[i].by
          /\ sender[control_out[i].by].pc = "write")

\* the driver waits for the lock while the listener is in the middle of its
\* second record, after a whole record of the driver
C11_Witness ==
  /\ sender["driver"].pc = "lock"
  /\ sender["driver"].done = 1
  /\ control_socket_lock = "listener"
  /\ sender["listener"].pc = "write"
  /\ sender["listener"].pos = 2
  /\ Len(control_out) >= 4

\* the 64 name bytes and the 4 resolution bytes the server sent
SentName == SubSeq(wire.stream, DummyLen + 1, DummyLen + NameLen)
SentRes ==
  SubSeq(wire.stream, DummyLen + NameLen + 1, DummyLen + NameLen + ResLen)

\* C12: when the handshake reads have succeeded, device_name is the 64 name
\* bytes decoded with the trailing nulls stripped and resolution is the 4
\* bytes after the name as two big-endian 16-bit integers, however the
\* transport split the bytes.
C12_HandshakeParsing ==
  pc \in {"nonblock", "setalive"} =>
    /\ device_name = Rstrip(Utf8Decode(SentName).chars)
    /\ resolution = Unpack(SentRes)

\* C13: when start() has failed in the handshake, none of the remote shell
\* stream, the video socket and the control socket is left open.
C13_FailedHandshakeReleases ==
  HandshakeFailed => \A r \in Resources : StateOf(r) # "open"

\* C14: once a loop has ended by propagating a hard I/O error of the video
\* socket, alive is false.
C14_FatalErrorStops ==
  \A a \in Loops : loop[a].pc = "raised" => ~alive

\* resource r is open before and after the step
StaysOpen(r) ==
  /\ StateOf(r) = "open"
  /\ CASE r = "server" -> server_stream' = "open"
       [] r = "control" -> control_socket' = "open"
       [] OTHER -> video_socket' = "open"

\* C15: when stop() ends, by returning or because a close() raised, no
\* resource that comes after the statement it ended in is left open: a
\* failing close does not keep the others from being closed.
C15_IndependentClose ==
  [][stop_pc # "idle" /\ stop_pc' = "idle" =>
       \A r \in Resources : Before(stop_pc, r) => ~StaysOpen(r)]_vars

\* C16: a decode error does not end the loop: no __stream_loop is ever left
\* by the exception of a malformed access unit.
C16_DecodeErrorSkipped ==
  \A a \in Loops : loop[a].pc # "crashed"

\* C18: no loop makes two reads in a row that deliver no bytes without a
\* sleep in between.
C18_NoBusySpin ==
  \A a \in Loops : loop[a].empty < 2

\* C17: at most one __stream_loop is executing at any time.
C17_SingleReader ==
  Cardinality({a \in Loops : Running(a)}) <= 1

\* C19: whenever a frame listener is invoked with a decoded frame F,
\* last_frame is F and resolution is the geometry of F, and the invocation
\* changes neither; last_frame changes only when a loop stores the frame it
\* has just decoded, which is newer than the one it replaces; resolution
\* changes only in the handshake and when a loop stores the geometry of the
\* frame it has stored in last_frame.
C19_LastFrameCache ==
  [][/\ \A a \in Loops :
          (Len(loop'[a].inv) > Len(loop[a].inv) /\ loop[a].cur # None) =>
            /\ last_frame = loop[a].cur
            /\ resolution = Geometry(loop[a].cur)
            /\ last_frame' = last_frame
            /\ resolution' = resolution
     /\ (last_frame' # last_frame =>
           /\ last_frame' > last_frame
           /\ \E a \in Loops :
                /\ loop[a].pc = "frame"
                /\ loop'[a].pc = "resolution"
                /\ loop[a].cur = last_frame')
     /\ (resolution' # resolution =>
           \/ pc = "res" /\ pc' = "nonblock"
           \/ \E a \in Loops :
                /\ loop[a].pc = "resolution"
                /\ loop'[a].pc = "emit"
                /\ loop[a].cur = last_frame
                /\ resolution' = Geometry(last_frame))]_vars

\* C20: while alive is true the handshake has completed (device name
\* non-empty, resolution set) and the video and control sockets are open.
C20_AliveImpliesLive ==
  alive =>
    /\ device_name \notin {"none", ""}
    /\ resolution # <<>>
    /\ video_socket = "open"
    /\ control_socket = "open"

====
